---- MODULE Spec2Model ----
(***************************************************************************)
(* The script authorizer of policy-admission (pkg/authorize/scripts):      *)
(* Admit builds a fresh otto interpreter per call, injects the request     *)
(* data and the host functions, and runs the configured script under       *)
(* runSafely, which arms a deadline and interrupts the interpreter         *)
(* through its Interrupt channel.                                          *)
(*                                                                         *)
(* The program text of the script is represented by the statements it      *)
(* executes: at every statement boundary the next statement is drawn from  *)
(* Stmts, so the model covers every script of at most MaxLen effectful     *)
(* statements, optionally followed by an endless loop.                     *)
(***************************************************************************)
EXTENDS Integers, Sequences, FiniteSets, TLC

VARIABLES config, inv, api, kcm

vars == <<config, inv, api, kcm>>

----------------------------------------------------------------------------
(* Bounds of the model *)

\* the longest script body, in statements with an effect
MaxLen == 2
\* the largest configured timeout, in ticks of the clock
MaxTimeout == 2

----------------------------------------------------------------------------
(* Data *)

\* the invocations of Admit on the one authorizer
Invocations == {1, 2}

\* errTimeout, the sentinel of runSafely
errTimeout == "operation timed out"

\* the error values the model distinguishes; nil is "nil"
errMarshal == "json: unsupported type"
errLookup == "namespace lookup failed"
errScript == "ReferenceError: 'x' is not defined"
\* the value of a panic raised by a host function (not the sentinel)
hostPanic == "runtime error: invalid memory address or nil pointer dereference"

\* an argument a script passes to a host function (otto.Value): a string, or
\* undefined when the argument is missing
Str(s) == [t |-> "string", s |-> s]
Undefined == [t |-> "undefined", s |-> ""]

\* otto.Value.String()
String(v) == IF v.t = "undefined" THEN "undefined" ELSE v.s

\* field.NewPath(name).String(): a root path prints as its name
NewPath(name) == name

\* field.Invalid(path, value, detail)
Invalid(path, value, detail) ==
    [type |-> "invalid", field |-> path, value |-> value, detail |-> detail]

\* field.InternalError(path, err): no bad value, the detail is err.Error()
InternalError(path, err) ==
    [type |-> "internal", field |-> path, value |-> "nil", detail |-> err]

\* the resource descriptor of the request (cx.Group)
Groups == {[Group |-> "apps", Version |-> "v1", Kind |-> "Deployment"]}

\* the target objects: the type meta may be left out by the transport, the
\* namespace is empty for a cluster-scoped object, and an object may hold a
\* value json cannot encode
TypeMetas == {[kind |-> "", apiVersion |-> ""],
              [kind |-> "Pod", apiVersion |-> ""],
              [kind |-> "Pod", apiVersion |-> "v1"]}
Objects ==
    {[kind |-> t.kind, apiVersion |-> t.apiVersion, name |-> "web", namespace |-> n,
      encodable |-> TRUE] : t \in TypeMetas, n \in {"", "test"}}
    \cup {[kind |-> "", apiVersion |-> "", name |-> "web", namespace |-> n,
            encodable |-> FALSE] : n \in {"", "test"}}

\* a namespace as the typed client returns it (no type meta)
NamespaceObject(name, encodable) ==
    [kind |-> "", apiVersion |-> "", name |-> name, namespace |-> "",
     encodable |-> encodable]

\* what utils.GetCachedNamespace gives back: an error, or a namespace
NamespaceResults ==
    {[err |-> errLookup, ns |-> NamespaceObject("", TRUE)],
     [err |-> "nil", ns |-> NamespaceObject("test", TRUE)],
     [err |-> "nil", ns |-> NamespaceObject("test", FALSE)]}

\* the request contexts the transport hands to Admit
Contexts ==
    {[Object |-> o, Group |-> g, Namespace |-> r] :
        o \in Objects, g \in Groups, r \in NamespaceResults}

NoContext ==
    [Object |-> NamespaceObject("", TRUE),
     Group |-> [Group |-> "", Version |-> "", Kind |-> ""],
     Namespace |-> [err |-> "nil", ns |-> NamespaceObject("", TRUE)]]

\* the deny() calls a script makes: fieldPath, message, value
DenyCalls == {<<Str("spec.x"), Str("bad"), Str("msg")>>,
              <<Str("spec.y"), Str("worse"), Undefined>>}

\* the plugin's static options
OptionSets ==
    {[k \in {} |-> ""],
     [k \in {"deny", "limit", "namespace"} |->
        CASE k = "deny" -> "off" [] k = "limit" -> "10" [] k = "namespace" -> "any"]}

\* the timeouts a configuration can hold
Timeouts == -1 .. MaxTimeout

\* NewDefaultConfig().Timeout, in ticks
DefaultTimeout == 5

\* api.FilterAll, the kind of a filter on every kind
FilterAll == "api.FilterAll"

\* the namespaces NewFromFile ignores when the file names none
DefaultIgnored == <<"kube-system", "kube-public", "kube-admission">>

\* the configurations of the authorizers the invocations run on
Configs ==
    {[Name |-> "scripts", Timeout |-> t, Options |-> o,
      FilterOn |-> [Kind |-> FilterAll, IgnoreNamespaces |-> DefaultIgnored],
      IgnoreNamespaces |-> <<>>] :
        t \in Timeouts, o \in OptionSets}

----------------------------------------------------------------------------
(* Admit: the setup of the interpreter *)

\* the keys of an encoded object; encoding/json leaves out an empty field
\* tagged omitempty, as all of these are
JsonKeys == {"kind", "apiVersion", "name", "namespace"}

\* marshal with the error of json.Marshal dropped
marshalUnchecked(o) ==
    [data |-> {<<k, o[k]>> : k \in {j \in JsonKeys : o[j] # ""}}, err |-> "nil"]

\* marshal: json.Marshal, then json.Unmarshal into a new map. The map is a set
\* of <<key, value>> pairs.
marshal(o) ==
    IF ~o.encodable
    THEN [data |-> {}, err |-> errMarshal]
    ELSE [data |-> {<<k, o[k]>> : k \in {j \in JsonKeys : o[j] # ""}}, err |-> "nil"]

found(obj, key) == \E p \in obj : p[1] = key

\* fmt.Sprintf("%s/%s", cx.Group.Group, cx.Group.Version)
GroupVersion(group) == group.Group \o "/" \o group.Version

\* the back-fill without the tests for the key: the defaults overwrite
BackfillAlways(obj, group) ==
    {p \in obj : p[1] \notin {"apiVersion", "kind"}}
        \cup {<<"apiVersion", GroupVersion(group)>>, <<"kind", group.Kind>>}

\* the back-fill of the type meta in the decoded copy
Backfill(obj, group) ==
    LET withVersion == IF ~found(obj, "apiVersion")
                       THEN obj \cup {<<"apiVersion", GroupVersion(group)>>}
                       ELSE obj
    IN  IF ~found(withVersion, "kind")
        THEN withVersion \cup {<<"kind", group.Kind>>}
        ELSE withVersion

\* vm.Set(name, value): a later Set of the same name wins
Set(vm, name, by) == (name :> [by |-> by]) @@ vm

\* for k, v := range c.config.Options { vm.Set(k, v) }
SetOptions(options) == [k \in DOMAIN options |-> [by |-> "option:" \o options[k]]]

\* the host functions Admit binds after the data
HostFunctions == {"log", "hasPrefix", "hasSuffix", "inDomain", "deny"}

\* the host functions bound only where the name is still free
SetHostFunctionsKeeping(vm) ==
    [k \in DOMAIN vm \cup HostFunctions |->
        IF k \in DOMAIN vm THEN vm[k] ELSE [by |-> "builtin"]]

SetHostFunctions(vm) ==
    [k \in DOMAIN vm \cup HostFunctions |->
        IF k \in HostFunctions THEN [by |-> "builtin"] ELSE vm[k]]

\* the setup without the test of the object's namespace: the lookup is made
\* and `namespace` is bound for a cluster-scoped object too
SetupAlwaysLooksUp(cx, options) ==
    LET m == marshal(cx.Object)
        obj == Backfill(m.data, cx.Group)
        vm0 == Set(Set(SetOptions(options), "cache", "builtin"), "object", "builtin")
        n == marshal(cx.Namespace.ns)
    IN  IF m.err # "nil"
        THEN [err |-> m.err, created |-> FALSE, vm |-> SetOptions([k \in {} |-> ""]),
              object |-> {}, namespace |-> {}, lookups |-> 0]
        ELSE IF cx.Namespace.err # "nil"
        THEN [err |-> cx.Namespace.err, created |-> TRUE, vm |-> vm0,
              object |-> obj, namespace |-> {}, lookups |-> 1]
        ELSE IF n.err # "nil"
        THEN [err |-> n.err, created |-> TRUE, vm |-> vm0,
              object |-> obj, namespace |-> {}, lookups |-> 1]
        ELSE [err |-> "nil", created |-> TRUE,
              vm |-> SetHostFunctions(Set(vm0, "namespace", "builtin")),
              object |-> obj, namespace |-> n.data, lookups |-> 1]

\* the closure of Admit up to the call of runSafely: err is the error it
\* returns early with, vm the bindings made, object and namespace the maps
\* bound as `object` and `namespace`, lookups the calls of GetCachedNamespace
Setup(cx, options) ==
    LET m == marshal(cx.Object)
        obj == Backfill(m.data, cx.Group)
        vm0 == Set(Set(SetOptions(options), "cache", "builtin"), "object", "builtin")
        scoped == cx.Object.namespace # ""
        n == marshal(cx.Namespace.ns)
    IN  IF m.err # "nil"
        THEN [err |-> m.err, created |-> FALSE, vm |-> SetOptions([k \in {} |-> ""]),
              object |-> {}, namespace |-> {}, lookups |-> 0]
        ELSE IF scoped /\ cx.Namespace.err # "nil"
        THEN [err |-> cx.Namespace.err, created |-> TRUE, vm |-> vm0,
              object |-> obj, namespace |-> {}, lookups |-> 1]
        ELSE IF scoped /\ n.err # "nil"
        THEN [err |-> n.err, created |-> TRUE, vm |-> vm0,
              object |-> obj, namespace |-> {}, lookups |-> 1]
        ELSE [err |-> "nil", created |-> TRUE,
              vm |-> SetHostFunctions(IF scoped THEN Set(vm0, "namespace", "builtin")
                                      ELSE vm0),
              object |-> obj,
              namespace |-> IF scoped THEN n.data ELSE {},
              lookups |-> IF scoped THEN 1 ELSE 0]

\* a return of the error alone: the violations recorded so far are dropped
AdmitReturnOnlyError(errs, err) ==
    IF err # "nil" THEN <<InternalError(NewPath(""), err)>> ELSE errs

\* return append(errs, field.InternalError(field.NewPath(""), err)), or errs
AdmitReturn(errs, err) ==
    IF err # "nil" THEN Append(errs, InternalError(NewPath(""), err)) ELSE errs

----------------------------------------------------------------------------
(* runSafely *)

\* make(chan func()): a channel without a buffer
InterruptCapUnbuffered == Len(<<>>)

\* make(chan func(), 1)
InterruptCap == 1

\* the default taken for a negative timeout only
ArmedTimeoutNegativeOnly(timeout) == IF timeout < 0 THEN DefaultTimeout ELSE timeout

\* the timeout runSafely hands to context.WithTimeout
ArmedTimeout(timeout) == IF timeout <= 0 THEN DefaultTimeout ELSE timeout

\* a recover that raises every value again, the sentinel too
RecoverNothing(e) == [err |-> "nil", panic |-> e]

\* the deferred recover of runSafely: the sentinel becomes the returned
\* error, any other value is raised again
Recover(e) ==
    IF e = errTimeout
    THEN [err |-> errTimeout, panic |-> "nil"]
    ELSE [err |-> "nil", panic |-> e]

\* <-ctx.Done(): the derived context is done once its timer fired ("timer"),
\* its parent was done ("parent") or the deferred cancel ran ("cancel")
Done(r) == r.ctx # "none"

\* ctx.Err() of the derived context
CtxErr(r) ==
    CASE r.ctx = "none" -> "nil"
      [] r.ctx = "timer" -> "DeadlineExceeded"
      [] r.ctx = "parent" -> r.parent
      [] r.ctx = "cancel" -> "Canceled"

\* cancel() called at once instead of deferred
WithTimeoutCancelled(parent) == "cancel"

\* ctx, cancel := context.WithTimeout(ctx, timeout): the derived context is
\* done from the start when its parent is
WithTimeout(parent) == IF parent # "nil" THEN "parent" ELSE "none"

\* the deferred cancel() of runSafely
Cancel(ctx) == IF ctx = "none" THEN "cancel" ELSE ctx

\* deny with the message and the value the wrong way round
DenySwapped(errs, call) ==
    LET path == String(call[1])
        message == String(call[2])
        value == String(call[3])
    IN  Append(errs, Invalid(NewPath(path), message, value))

\* the host function deny: errs = append(errs, field.Invalid(...))
Deny(errs, call) ==
    LET path == String(call[1])
        message == String(call[2])
        value == String(call[3])
    IN  Append(errs, Invalid(NewPath(path), value, message))

\* runSafely receiving from the interrupt channel itself once e.Run has
\* returned, and calling what it receives
RunEndsDraining(r, err, panic, exit) ==
    LET raised == IF panic = "nil" /\ r.interrupt # <<>> THEN errTimeout ELSE panic
        rec == IF raised # "nil" THEN Recover(raised) ELSE [err |-> err, panic |-> "nil"]
    IN  IF rec.panic # "nil"
        THEN [r EXCEPT !.pc = "panicked", !.panic = rec.panic, !.exit = exit,
                       !.ctx = Cancel(r.ctx)]
        ELSE [r EXCEPT !.pc = "returned", !.err = rec.err, !.exit = exit,
                       !.ctx = Cancel(r.ctx),
                       !.result = AdmitReturn(r.errs, rec.err)]

\* e.Run has ended, with the error err or unwinding with the value panic: the
\* deferred calls of runSafely run (cancel, then the recover), and Admit
\* returns unless the unwinding goes on through it
RunEnds(r, err, panic, exit) ==
    LET rec == IF panic # "nil" THEN Recover(panic) ELSE [err |-> err, panic |-> "nil"]
    IN  IF rec.panic # "nil"
        THEN [r EXCEPT !.pc = "panicked", !.panic = rec.panic, !.exit = exit,
                       !.ctx = Cancel(r.ctx)]
        ELSE [r EXCEPT !.pc = "returned", !.err = rec.err, !.exit = exit,
                       !.ctx = Cancel(r.ctx),
                       !.result = AdmitReturn(r.errs, rec.err)]

----------------------------------------------------------------------------
(* The construction of the authorizer, and its other methods *)

\* the zero value of Config, which utils.NewConfig(path).Read fills
ZeroConfig ==
    [Name |-> "", Timeout |-> 0, Options |-> [k \in {} |-> ""],
     FilterOn |-> [Kind |-> "", IgnoreNamespaces |-> <<>>],
     IgnoreNamespaces |-> <<>>]

\* NewDefaultConfig()
DefaultConfig ==
    [Name |-> "scripts", Timeout |-> DefaultTimeout, Options |-> [k \in {} |-> ""],
     FilterOn |-> [Kind |-> FilterAll, IgnoreNamespaces |-> DefaultIgnored],
     IgnoreNamespaces |-> DefaultIgnored]

errRead == "unable to read configuration"

\* the configuration files: a file may not be readable; one that is holds a
\* name, a timeout, a filter (kind and ignored namespaces) and a list of
\* ignored namespaces, each of which may be left out
Files ==
    {[readable |-> FALSE, cfg |-> ZeroConfig]}
    \cup {[readable |-> TRUE,
           cfg |-> [ZeroConfig EXCEPT !.Name = "scripts",
                                      !.Timeout = 1,
                                      !.FilterOn = [Kind |-> k, IgnoreNamespaces |-> f],
                                      !.IgnoreNamespaces = n]] :
            k \in {"", "pods"},
            f \in {<<>>, <<"other">>},
            n \in {<<>>, <<"dev">>, <<"dev", "kube-system">>}}

Paths == {"", "/config/scripts.yml"}

\* New(config): nil stands for the default configuration
New(cfg, isNil) ==
    [config |-> IF isNil THEN DefaultConfig ELSE cfg, err |-> "nil"]

\* NewFromFile without the defaults of the filter
NewFromFileNoDefaults(path, file) ==
    IF path = ""
    THEN New(ZeroConfig, TRUE)
    ELSE IF ~file.readable
    THEN [config |-> ZeroConfig, err |-> errRead]
    ELSE New(file.cfg, FALSE)

\* NewFromFile(path): file is what is found at the path
NewFromFile(path, file) ==
    IF path = ""
    THEN New(ZeroConfig, TRUE)
    ELSE IF ~file.readable
    THEN [config |-> ZeroConfig, err |-> errRead]
    ELSE LET cfg == file.cfg
             kind == IF cfg.FilterOn.Kind = "" THEN FilterAll ELSE cfg.FilterOn.Kind
             ignored == IF Len(cfg.IgnoreNamespaces) # 0
                        THEN cfg.IgnoreNamespaces
                        ELSE DefaultIgnored
         IN  New([cfg EXCEPT !.FilterOn = [Kind |-> kind, IgnoreNamespaces |-> ignored]],
                 FALSE)

\* FilterOn(): the filter of the configuration
FilterOn(cfg) == cfg.FilterOn

\* Name()
Name(cfg) == cfg.Name

NoFilter == [Kind |-> "", IgnoreNamespaces |-> <<>>]

\* the authorizer as its user sees it: how it was built (from which path and
\* file), the calls of Stop and the error of the last one, and what the last
\* calls of FilterOn and Name returned
Unbuilt ==
    [built |-> "none", path |-> "", file |-> [readable |-> FALSE, cfg |-> ZeroConfig],
     stops |-> 0, stopErr |-> "none", filterOn |-> NoFilter, name |-> ""]

\* an authorizer built by New
Built == [Unbuilt EXCEPT !.built = "ok"]

----------------------------------------------------------------------------
(* The kube-cert-manager authorizer under its test (TestAuthorizer) *)

\* the longest list of hosts of an ingress
MaxHosts == 2

\* the configuration of TestAuthorizer
ExternalIngressHostname == "ingress.acp.example.com"

HostedDomains == {"example.com"}

\* the prefix of the annotations of a namespace (newTestContext)
Prefix == "policy-admission.acp.homeoffice.gov.uk"

EnableDNSCheck == Prefix \o "/kubecertmanager/enable-dns-check"

ProviderAnnotation == "stable.k8s.psg.io/kcm.provider"

ClassAnnotation == "kubernetes.io/ingress.class"

\* the domain of a host name of the checks
DomainOf(host) ==
    CASE host = "site.example.com" -> "example.com"
      [] host = "site.nohere.com"  -> "nohere.com"
      [] OTHER                     -> host

KcmHosts == {"site.example.com", "site.nohere.com"}

\* an annotation left out is the empty string
Absent == ""

\* the checks: kubeCertCheck without its expectation
Checks ==
    [Provider  : {Absent, "http", "dns", "bad"},
     Class     : {"nginx-external", "nginx-internal"},
     Namespace : {Absent, "true", "false", "bad_value"},
     Hosts     : UNION {[1..n -> KcmHosts] : n \in 0..MaxHosts},
     Resolves  : {"", "bad.hostname", ExternalIngressHostname}]

NoCheck ==
    [Provider |-> Absent, Class |-> "nginx-external", Namespace |-> Absent,
     Hosts |-> <<>>, Resolves |-> ""]

\* a namespace created without the annotations of the check
CreateNamespaceBare(check) == Absent

\* the namespace "test" runChecks creates for the ingress: the value of its
\* enable-dns-check annotation, which it takes from the check
CreateNamespace(check) == check.Namespace

\* a resolver that answers with the name it is asked
GetCNAMEEcho(resolve, host) == host

\* testResolver.GetCNAME: the hostname of the resolver, whatever is asked
GetCNAME(resolve, host) == resolve

\* the path of the host of rule i, counted from zero as the rules are
RuleHost(i) ==
    "spec.rules[" \o (CASE i = 1 -> "0" [] i = 2 -> "1" [] i = 3 -> "2" [] OTHER -> "n")
                  \o "].host"

IsHosted(host) == DomainOf(host) \in HostedDomains

\* the DNS check of a namespace is on unless its annotation says false
DNSCheckEnabled(namespace) == namespace # "false"

\* a DNS check that is on only where the annotation says true
DNSCheckOptIn(namespace) == namespace = "true"

\* the violations of one rule of the ingress
ValidateHost(check, resolve, i) ==
    LET host == check.Hosts[i] IN
    IF IsHosted(host) THEN <<>>
    ELSE IF check.Provider = Absent
    THEN <<Invalid(RuleHost(i), host,
                   "domain is not hosted internally and thus denied")>>
    ELSE IF check.Provider # "http"
    THEN <<Invalid("annotations[" \o ProviderAnnotation \o "]", check.Provider,
                   "invalid kube-cert-manager provider type: " \o check.Provider
                       \o ", expected: http")>>
    ELSE IF check.Class # "nginx-external"
    THEN <<Invalid("annotations[" \o ClassAnnotation \o "]", check.Class,
                   "invalid kube-cert-manager provider, expected 'nginx-external' for a http challenge")>>
    ELSE IF DNSCheckEnabled(CreateNamespace(check))
            /\ GetCNAME(resolve, host) # ExternalIngressHostname
    THEN <<Invalid(RuleHost(i), host,
                   "the hostname: " \o host
                       \o " is not pointed to the external ingress dns name "
                       \o ExternalIngressHostname)>>
    ELSE <<>>

RECURSIVE ValidateRules(_, _, _)
ValidateRules(check, resolve, i) ==
    IF i > Len(check.Hosts) THEN <<>>
    ELSE ValidateHost(check, resolve, i) \o ValidateRules(check, resolve, i + 1)

\* Admit of the kube-cert-manager authorizer on the ingress of a check
KcmAdmit(check, resolve) == ValidateRules(check, resolve, 1)

\* the resolver runChecks leaves in the authorizer for a check
Resolver(resolve, check) ==
    IF check.Resolves # "" THEN check.Resolves ELSE resolve

\* the authorizer of the test: its resolver (newTestAuthorizer starts it
\* with no hostname), whether a check has run, the last check and what Admit
\* returned for it
KcmIdle == [resolve |-> "", ran |-> FALSE, check |-> NoCheck, errs |-> <<>>]

----------------------------------------------------------------------------
(* State *)

Idle ==
    [pc |-> "idle", cx |-> NoContext, parent |-> "nil",
     created |-> FALSE, vm |-> SetOptions([k \in {} |-> ""]),
     object |-> {}, namespace |-> {}, lookups |-> 0,
     interrupt |-> <<>>, armed |-> FALSE, deadline |-> 0, elapsed |-> 0,
     ctx |-> "none", watcher |-> "none",
     errs |-> <<>>, calls |-> <<>>, ip |-> 0, spinning |-> FALSE, runs |-> 0,
     consumed |-> FALSE, err |-> "nil", panic |-> "nil", result |-> <<>>,
     exit |-> "none"]

Init ==
    /\ config \in Configs
    /\ inv = [i \in Invocations |-> Idle]
    /\ api = Built
    /\ kcm = KcmIdle

----------------------------------------------------------------------------
(* Actions *)

\* the transport builds the request context of invocation i
NewContext(i, cx) ==
    /\ inv[i].pc = "idle"
    /\ inv' = [inv EXCEPT ![i] = [@ EXCEPT !.pc = "ready", !.cx = cx]]
    /\ UNCHANGED <<config, api, kcm>>

\* the context handed to Admit is cancelled, or its own deadline expires;
\* the context derived from it by runSafely is done with it
ParentDone(i, e) ==
    /\ inv[i].pc \in {"ready", "running"}
    /\ inv[i].parent = "nil"
    /\ inv' = [inv EXCEPT ![i] =
                 [@ EXCEPT !.parent = e,
                           !.ctx = IF inv[i].armed /\ @ = "none" THEN "parent" ELSE @]]
    /\ UNCHANGED <<config, api, kcm>>

\* Admit, from its call to the start of e.Run in runSafely: the setup of the
\* interpreter, then the channel, the deadline and the watcher goroutine
Admit(i) ==
    /\ inv[i].pc = "ready"
    /\ LET r == inv[i]
           s == Setup(r.cx, config.Options)
           set == [r EXCEPT !.created = s.created, !.vm = s.vm, !.object = s.object,
                            !.namespace = s.namespace, !.lookups = s.lookups]
       IN  inv' = [inv EXCEPT ![i] =
                IF s.err # "nil"
                THEN [set EXCEPT !.pc = "returned", !.err = s.err, !.exit = "setup",
                                 !.result = AdmitReturn(r.errs, s.err)]
                ELSE [set EXCEPT !.pc = "running",
                                 !.interrupt = <<>>,
                                 !.armed = TRUE,
                                 !.deadline = ArmedTimeout(config.Timeout),
                                 !.ctx = WithTimeout(r.parent),
                                 !.watcher = "waiting",
                                 !.runs = @ + 1]]
    /\ UNCHANGED <<config, api, kcm>>

\* a tick of the clock while the timer of the derived context is pending
Tick(i) ==
    /\ inv[i].armed
    /\ inv[i].ctx = "none"
    /\ inv[i].elapsed < inv[i].deadline
    /\ inv' = [inv EXCEPT ![i] = [@ EXCEPT !.elapsed = @ + 1]]
    /\ UNCHANGED <<config, api, kcm>>

\* the timer of context.WithTimeout fires at the deadline
TimerFire(i) ==
    /\ inv[i].armed
    /\ inv[i].ctx = "none"
    /\ inv[i].elapsed >= inv[i].deadline
    /\ inv' = [inv EXCEPT ![i] = [@ EXCEPT !.ctx = "timer"]]
    /\ UNCHANGED <<config, api, kcm>>

\* a watcher that ends on the context's end without sending
WatcherSilent(i) ==
    /\ inv[i].watcher = "waiting"
    /\ Done(inv[i])
    /\ inv' = [inv EXCEPT ![i] = [@ EXCEPT !.watcher = "done"]]
    /\ UNCHANGED <<config, api, kcm>>

\* the watcher goroutine: once the context is done and its error is not nil,
\* it sends the interrupt function and ends
Watcher(i) ==
    /\ inv[i].watcher = "waiting"
    /\ Done(inv[i])
    /\ IF CtxErr(inv[i]) # "nil"
       THEN /\ Len(inv[i].interrupt) < InterruptCap
            /\ inv' = [inv EXCEPT ![i] =
                         [@ EXCEPT !.interrupt = Append(@, "panic(errTimeout)"),
                                   !.watcher = "done"]]
       ELSE inv' = [inv EXCEPT ![i] = [@ EXCEPT !.watcher = "done"]]
    /\ UNCHANGED <<config, api, kcm>>

NoCall == <<Undefined, Undefined, Undefined>>

\* the statements of a script, by their effect: `set` binds a global of the
\* interpreter, `deny` calls the host function, `throw` raises a script
\* error nothing catches, `panic` calls a host function that panics, `loop`
\* is one turn of an endless loop
Stmts ==
    {[op |-> "deny", call |-> c] : c \in DenyCalls}
    \cup {[op |-> o, call |-> NoCall] : o \in {"set", "throw", "panic", "loop"}}

\* the statement stmt may come next: a script in its endless loop stays in
\* it, and a script body has at most MaxLen statements with an effect
MayExecute(r, stmt) ==
    /\ r.spinning => stmt.op = "loop"
    /\ stmt.op \in {"set", "deny"} => r.ip < MaxLen

\* the interpreter executes one statement
Execute(r, stmt) ==
    CASE stmt.op = "set" ->
            [r EXCEPT !.vm = Set(@, "x", "script"), !.ip = @ + 1]
      [] stmt.op = "deny" ->
            [r EXCEPT !.errs = Deny(@, stmt.call), !.calls = Append(@, stmt.call),
                      !.ip = @ + 1]
      [] stmt.op = "throw" -> RunEnds(r, errScript, "nil", "throw")
      [] stmt.op = "panic" -> RunEnds(r, "nil", hostPanic, "panic")
      [] stmt.op = "loop" -> [r EXCEPT !.spinning = TRUE]

\* the interrupt check the interpreter makes before a statement: a function
\* waiting in the channel is received and called
Interrupted(r) == r.interrupt # <<>>

\* the statement boundary with the violation list kept by the authorizer
\* instead of the call: a deny() reaches the list of every invocation
StatementShared(i, stmt) ==
    /\ inv[i].pc = "running"
    /\ IF Interrupted(inv[i])
       THEN inv' = [inv EXCEPT ![i] =
                      RunEnds([@ EXCEPT !.interrupt = Tail(@), !.consumed = TRUE],
                              "nil", errTimeout, "interrupt")]
       ELSE /\ MayExecute(inv[i], stmt)
            /\ inv' = [j \in Invocations |->
                         IF j = i THEN Execute(inv[i], stmt)
                         ELSE IF stmt.op = "deny"
                              THEN [inv[j] EXCEPT !.errs = Deny(@, stmt.call)]
                              ELSE inv[j]]
    /\ UNCHANGED <<config, api, kcm>>

\* e.Run at a statement boundary: the interrupt function, if one waits, is
\* called and unwinds the run with the sentinel; otherwise the next
\* statement is executed
Statement(i, stmt) ==
    /\ inv[i].pc = "running"
    /\ IF Interrupted(inv[i])
       THEN inv' = [inv EXCEPT ![i] =
                      RunEnds([@ EXCEPT !.interrupt = Tail(@), !.consumed = TRUE],
                              "nil", errTimeout, "interrupt")]
       ELSE /\ MayExecute(inv[i], stmt)
            /\ inv' = [inv EXCEPT ![i] = Execute(@, stmt)]
    /\ UNCHANGED <<config, api, kcm>>

\* e.Run returns without reaching another statement: the script has run to
\* its end (err is nil), or its text does not parse (nothing was executed)
Return(i, err) ==
    /\ inv[i].pc = "running"
    /\ ~inv[i].spinning
    /\ err # "nil" => inv[i].ip = 0
    /\ inv' = [inv EXCEPT ![i] =
                 RunEnds(@, err, "nil", IF err = "nil" THEN "finish" ELSE "throw")]
    /\ UNCHANGED <<config, api, kcm>>

\* the steps of invocation i
Step(i) ==
    \/ \E cx \in Contexts : NewContext(i, cx)
    \/ \E e \in {"Canceled", "DeadlineExceeded"} : ParentDone(i, e)
    \/ Admit(i)
    \/ Tick(i)
    \/ TimerFire(i)
    \/ Watcher(i)
    \/ \E stmt \in Stmts : Statement(i, stmt)
    \/ \E err \in {"nil", errScript} : Return(i, err)

\* one request at a time
Next == Step(1)

Spec == Init /\ [][Next]_vars

\* Two requests at a time, on the one authorizer. The requests are for a
\* namespaced object whose setup succeeds, and the configuration holds the
\* shortest timeout and no options, and the script makes the one deny() call.
ConcStmts == {s \in Stmts : s.op = "deny" => s.call[1] = Str("spec.x")}

ConcContexts ==
    {cx \in Contexts : /\ cx.Object.namespace # ""
                       /\ cx.Object.kind = ""
                       /\ Setup(cx, [k \in {} |-> ""]).err = "nil"}

InitConc ==
    /\ config \in {c \in Configs : c.Timeout = 1 /\ DOMAIN c.Options = {}}
    /\ inv = [i \in Invocations |-> Idle]
    /\ api = Built
    /\ kcm = KcmIdle

StepConc(i) ==
    \/ \E cx \in ConcContexts : NewContext(i, cx)
    \/ ParentDone(i, "Canceled")
    \/ Admit(i)
    \/ Tick(i)
    \/ TimerFire(i)
    \/ Watcher(i)
    \/ \E stmt \in ConcStmts : Statement(i, stmt)
    \/ \E err \in {"nil", errScript} : Return(i, err)

NextConc == \E i \in Invocations : StepConc(i)

SpecConc == InitConc /\ [][NextConc]_vars

----------------------------------------------------------------------------
(* The life of an authorizer: NewFromFile, then Admit, FilterOn, Name, Stop *)

\* the most calls of Stop
MaxStops == 2

InitApi ==
    /\ config = ZeroConfig
    /\ inv = [i \in Invocations |-> Idle]
    /\ api = Unbuilt
    /\ kcm = KcmIdle

\* NewFromFile(path) where file is at the path
NewFromFileCall(path, file) ==
    /\ api.built = "none"
    /\ LET r == NewFromFile(path, file) IN
       /\ config' = r.config
       /\ api' = [api EXCEPT !.built = IF r.err = "nil" THEN "ok" ELSE "error",
                             !.path = path,
                             !.file = IF path = "" THEN @ ELSE file]
    /\ UNCHANGED <<inv, kcm>>

\* a Stop that lets go of the configuration
StopReleasing ==
    /\ api.built = "ok"
    /\ api.stops < MaxStops
    /\ api' = [api EXCEPT !.stops = @ + 1, !.stopErr = "nil"]
    /\ config' = ZeroConfig
    /\ UNCHANGED <<inv, kcm>>

\* Stop()
Stop ==
    /\ api.built = "ok"
    /\ api.stops < MaxStops
    /\ api' = [api EXCEPT !.stops = @ + 1, !.stopErr = "nil"]
    /\ UNCHANGED <<config, inv, kcm>>

\* FilterOn()
FilterOnCall ==
    /\ api.built = "ok"
    /\ api' = [api EXCEPT !.filterOn = FilterOn(config)]
    /\ UNCHANGED <<config, inv, kcm>>

\* Name()
NameCall ==
    /\ api.built = "ok"
    /\ api' = [api EXCEPT !.name = Name(config)]
    /\ UNCHANGED <<config, inv, kcm>>

NextApi ==
    \/ \E path \in Paths, file \in Files : NewFromFileCall(path, file)
    \/ Stop
    \/ FilterOnCall
    \/ NameCall
    \/ api.built = "ok" /\ StepConc(1)

SpecApi == InitApi /\ [][NextApi]_vars

----------------------------------------------------------------------------
(* TestAuthorizer: runChecks runs the checks in the order of a map *)

\* one turn of the loop of runChecks
RunCheck(check) ==
    /\ kcm' = [resolve |-> Resolver(kcm.resolve, check),
               ran     |-> TRUE,
               check   |-> check,
               errs    |-> KcmAdmit(check, Resolver(kcm.resolve, check))]
    /\ UNCHANGED <<config, inv, api>>

NextKcm == \E check \in Checks : RunCheck(check)

InitKcm ==
    /\ config = DefaultConfig
    /\ inv = [i \in Invocations |-> Idle]
    /\ api = Built
    /\ kcm = KcmIdle

SpecKcm == InitKcm /\ [][NextKcm]_vars

\* The goroutines of an invocation are scheduled: the watcher runs once it
\* can, and the interpreter goes on to its next statement boundary.
Fairness ==
    /\ WF_vars(Watcher(1))
    /\ WF_vars(\E stmt \in Stmts : Statement(1, stmt))

\* the options play no part in the race of the script and the deadline
FairInit ==
    /\ config \in {c \in Configs : DOMAIN c.Options = {}}
    /\ inv = [i \in Invocations |-> Idle]
    /\ api = Built
    /\ kcm = KcmIdle

FairSpec == FairInit /\ [][Next]_vars /\ Fairness

----------------------------------------------------------------------------
(* Properties *)

\* the violations of a list that are internal errors
Internal(list) == {k \in 1 .. Len(list) : list[k].type = "internal"}

\* the violation the timeout is reported as
TimeoutViolation ==
    [type |-> "internal", field |-> "", value |-> "nil", detail |-> "operation timed out"]

\* C1: a script that never completes on its own (it is in its endless loop
\* and keeps reaching statement boundaries) does not hang: once the deadline
\* timer has fired, the interrupt is consumed, runSafely returns the error
\* 'operation timed out' and Admit returns.
C1_TimeoutReturns ==
    \A i \in Invocations :
        (inv[i].pc = "running" /\ inv[i].spinning /\ inv[i].ctx = "timer")
            ~> (/\ inv[i].pc = "returned"
                /\ inv[i].consumed
                /\ inv[i].err = "operation timed out")

C1_Witness ==
    \E i \in Invocations :
        /\ inv[i].pc = "returned"
        /\ inv[i].spinning
        /\ inv[i].ctx = "timer"
        /\ inv[i].exit = "interrupt"
        /\ inv[i].err = "operation timed out"

\* C2: a script error and any abnormal unwind other than the timeout sentinel
\* (a panic raised inside a host function) are returned by Admit as an
\* internal-error Violation carrying the failure message, and no panic
\* propagates out of runSafely or Admit.
C2_UnwindContained ==
    \A i \in Invocations :
        /\ inv[i].pc # "panicked"
        /\ inv[i].exit = "throw" =>
              /\ inv[i].pc = "returned"
              /\ inv[i].result[Len(inv[i].result)] =
                    [type |-> "internal", field |-> "", value |-> "nil",
                     detail |-> errScript]
        /\ inv[i].exit = "panic" =>
              /\ inv[i].pc = "returned"
              /\ inv[i].result[Len(inv[i].result)] =
                    [type |-> "internal", field |-> "", value |-> "nil",
                     detail |-> hostPanic]

\* C3, as claimed: the interrupt function runs in a script only when the
\* sandbox's own deadline timer has expired; a parent context that is
\* cancelled or expires first does not interrupt the script.
C3_OnlyOwnTimer ==
    \A i \in Invocations :
        /\ inv[i].consumed => inv[i].ctx = "timer"
        /\ inv[i].err = "operation timed out" => inv[i].ctx = "timer"

\* C3, amended: the interrupt is sent only once the derived context is done,
\* its timer fires only at the armed deadline, and the interrupt function
\* runs in a script (Admit then reports 'operation timed out') only when
\* the own deadline timer expired or the parent context was cancelled or
\* expired before it; never because of runSafely's own deferred cancel.
C3_TimerOrParent ==
    \A i \in Invocations :
        /\ (inv[i].interrupt # <<>> \/ inv[i].consumed) => inv[i].ctx # "none"
        /\ inv[i].ctx = "timer" => inv[i].elapsed >= inv[i].deadline
        /\ inv[i].ctx = "parent" => inv[i].parent # "nil"
        /\ inv[i].consumed <=> inv[i].err = "operation timed out"
        /\ inv[i].consumed => inv[i].ctx \in {"timer", "parent"}

\* the parent context is cancelled before the deadline, and the running
\* script is interrupted
C3_Witness ==
    \E i \in Invocations :
        /\ inv[i].consumed
        /\ inv[i].ctx = "parent"
        /\ inv[i].elapsed < inv[i].deadline
        /\ inv[i].pc = "returned"
        /\ inv[i].err = "operation timed out"

\* the violations the deny() calls of a script stand for, in call order
Denied(calls) ==
    [k \in 1 .. Len(calls) |->
        [type |-> "invalid",
         field |-> String(calls[k][1]),
         value |-> String(calls[k][3]),
         detail |-> String(calls[k][2])]]

\* C4: an interrupt delivered after the script's run has returned is a no-op:
\* when the run returns by itself (to its end, or with a script error) before
\* the interrupt function is consumed, the function is never executed, no
\* panic is raised, and Admit's error and violation list are those of the
\* finished script, whatever the watcher sends before or after the return.
C4_LateInterruptNoOp ==
    \A i \in Invocations :
        inv[i].exit \in {"finish", "throw"} =>
            /\ ~inv[i].consumed
            /\ inv[i].pc = "returned"
            /\ inv[i].panic = "nil"
            /\ inv[i].err = (IF inv[i].exit = "finish" THEN "nil" ELSE errScript)
            /\ inv[i].result =
                  (IF inv[i].exit = "finish"
                   THEN Denied(inv[i].calls)
                   ELSE Append(Denied(inv[i].calls),
                               [type |-> "internal", field |-> "", value |-> "nil",
                                detail |-> errScript]))

\* the interrupt waits in the channel of a script that has finished: it was
\* sent on the timer's expiry before the return, or on the deferred cancel
C4_Witness ==
    \E i \in Invocations :
        /\ inv[i].exit = "finish"
        /\ inv[i].interrupt # <<>>
        /\ inv[i].ctx = "timer"
        /\ inv[i].calls # <<>>

\* C5: a script aborted by the timeout makes Admit return normally a list
\* with exactly one internal-error Violation (empty field path, message
\* 'operation timed out'), and the script was run exactly once.
C5_TimeoutOnce ==
    \A i \in Invocations :
        /\ inv[i].runs <= 1
        /\ inv[i].exit = "interrupt" =>
              /\ inv[i].pc = "returned"
              /\ inv[i].panic = "nil"
              /\ Cardinality(Internal(inv[i].result)) = 1
              /\ inv[i].result[Len(inv[i].result)] = TimeoutViolation
              /\ inv[i].runs = 1

C5_Witness ==
    \E i \in Invocations :
        /\ inv[i].exit = "interrupt"
        /\ inv[i].pc = "returned"
        /\ inv[i].result = <<TimeoutViolation>>

\* C6: when the setup succeeds and the script completes cleanly after n
\* calls of deny(fieldPath, message, value), Admit returns exactly n
\* Violations of category invalid, in call order, the k-th with the field
\* path, value and message of the k-th call; none for n = 0.
C6_DenyList ==
    \A i \in Invocations :
        inv[i].exit = "finish" =>
            /\ inv[i].pc = "returned"
            /\ Len(inv[i].result) = Len(inv[i].calls)
            /\ \A k \in 1 .. Len(inv[i].calls) :
                  /\ inv[i].result[k].type = "invalid"
                  /\ inv[i].result[k].field = String(inv[i].calls[k][1])
                  /\ inv[i].result[k].detail = String(inv[i].calls[k][2])
                  /\ inv[i].result[k].value = String(inv[i].calls[k][3])

\* two different calls, in order
C6_Witness ==
    \E i \in Invocations :
        /\ inv[i].exit = "finish"
        /\ Len(inv[i].calls) = 2
        /\ inv[i].calls[1] # inv[i].calls[2]
        /\ inv[i].result[1].field = "spec.y"
        /\ inv[i].result[2].field = "spec.x"

\* the setup of Admit fails for this context
SetupFails(cx) ==
    \/ ~cx.Object.encodable
    \/ /\ cx.Object.namespace # ""
       /\ \/ cx.Namespace.err # "nil"
          \/ ~cx.Namespace.ns.encodable

\* C7: if the setup fails (the object cannot be converted, the namespace
\* lookup of a namespace-scoped request fails, or the namespace cannot be
\* converted), the script is never executed, no timer is armed, and Admit
\* returns exactly one internal-error Violation: the request is denied.
C7_SetupFailureDenies ==
    \A i \in Invocations :
        (inv[i].pc \notin {"idle", "ready"} /\ SetupFails(inv[i].cx)) =>
            /\ inv[i].pc = "returned"
            /\ inv[i].exit = "setup"
            /\ inv[i].runs = 0
            /\ inv[i].ip = 0
            /\ ~inv[i].armed
            /\ inv[i].watcher = "none"
            /\ Len(inv[i].result) = 1
            /\ inv[i].result[1].type = "internal"
            /\ inv[i].result[1].detail = inv[i].err
            /\ inv[i].err # "nil"

\* the namespace lookup fails
C7_Witness ==
    \E i \in Invocations :
        /\ inv[i].exit = "setup"
        /\ inv[i].cx.Object.namespace # ""
        /\ inv[i].cx.Namespace.err # "nil"
        /\ inv[i].result = <<[type |-> "internal", field |-> "", value |-> "nil",
                             detail |-> errLookup]>>

\* C9: the deadline runSafely arms is the configured timeout when that is
\* greater than zero and the default timeout otherwise; it is never zero or
\* less.
C9_ArmedDeadline ==
    \A i \in Invocations :
        inv[i].armed =>
            /\ inv[i].deadline > 0
            /\ config.Timeout > 0 => inv[i].deadline = config.Timeout
            /\ config.Timeout <= 0 => inv[i].deadline = DefaultTimeout

C9_Witness ==
    \E i \in Invocations :
        /\ inv[i].armed
        /\ config.Timeout = 0
        /\ inv[i].deadline = DefaultTimeout

\* C10: Admit never changes the object of the request context; the default
\* apiVersion ('group/version') and kind are written to the decoded copy
\* bound as `object`, and only for a key the copy lacks.
C10_BackfillCopyOnly ==
    [][\A i \in Invocations :
          /\ inv[i].pc # "idle" => inv'[i].cx = inv[i].cx
          /\ (inv[i].pc = "ready" /\ inv'[i].created) =>
                LET copy == marshal(inv[i].cx.Object).data
                    obj == inv'[i].object
                    group == inv[i].cx.Group
                IN  /\ {p \in obj : p[1] \notin {"apiVersion", "kind"}}
                         = {p \in copy : p[1] \notin {"apiVersion", "kind"}}
                    /\ {p \in obj : p[1] = "apiVersion"}
                         = IF found(copy, "apiVersion")
                           THEN {p \in copy : p[1] = "apiVersion"}
                           ELSE {<<"apiVersion", group.Group \o "/" \o group.Version>>}
                    /\ {p \in obj : p[1] = "kind"}
                         = IF found(copy, "kind")
                           THEN {p \in copy : p[1] = "kind"}
                           ELSE {<<"kind", group.Kind>>}]_vars

\* the object came with its kind and without its apiVersion: the copy keeps
\* the kind and gets the default apiVersion, the request's object is as it was
C10_Witness ==
    \E i \in Invocations :
        /\ inv[i].pc = "running"
        /\ inv[i].cx.Object.kind = "Pod"
        /\ inv[i].cx.Object.apiVersion = ""
        /\ <<"kind", "Pod">> \in inv[i].object
        /\ <<"apiVersion", "apps/v1">> \in inv[i].object

\* C8: two invocations on the same authorizer, one after the other or at the
\* same time, each own a fresh interpreter, interrupt channel and violation
\* list: a step of one (a deny() call, a binding made by the script, an
\* interrupt) changes nothing of the other, an invocation starts with an
\* empty list, an empty channel and the bindings of the setup alone, and
\* what it returns is what its own script denied.
C8_Isolation ==
    [][\A i \in Invocations :
          /\ inv'[i] # inv[i] =>
                \A j \in Invocations \ {i} : inv'[j] = inv[j]
          /\ (inv[i].pc = "ready" /\ inv'[i].pc = "running") =>
                /\ inv'[i].errs = <<>>
                /\ inv'[i].interrupt = <<>>
                /\ inv'[i].vm = Setup(inv[i].cx, config.Options).vm
                /\ "x" \notin DOMAIN inv'[i].vm
          /\ inv'[i].pc = "returned" =>
                /\ inv'[i].errs = Denied(inv'[i].calls)
                /\ inv'[i].result = AdmitReturn(Denied(inv'[i].calls), inv'[i].err)
                /\ inv'[i].err = "operation timed out" <=> inv'[i].consumed]_vars

\* one invocation was interrupted after a deny() while the other, which made
\* two deny() calls and bound a global, ran to its end
C8_Witness ==
    /\ inv[1].pc = "returned"
    /\ inv[1].exit = "interrupt"
    /\ Len(inv[1].result) = 2
    /\ inv[2].pc = "returned"
    /\ inv[2].exit = "finish"
    /\ Len(inv[2].result) = 1
    /\ "x" \in DOMAIN inv[2].vm
    /\ "x" \notin DOMAIN inv[1].vm
    /\ inv[2].interrupt = <<>>

\* C14: when the script fails (timeout or script error) after k calls of
\* deny(), Admit returns the k invalid Violations in call order followed by
\* exactly one internal-error Violation, the last element: what was recorded
\* before the failure is kept, and there is never a second internal error.
C14_FailureKeepsDenials ==
    \A i \in Invocations :
        /\ Cardinality(Internal(inv[i].result)) <= 1
        /\ (inv[i].pc = "returned" /\ inv[i].exit \in {"interrupt", "throw"}) =>
              /\ inv[i].err = (IF inv[i].exit = "interrupt" THEN errTimeout ELSE errScript)
              /\ Len(inv[i].result) = Len(inv[i].calls) + 1
              /\ SubSeq(inv[i].result, 1, Len(inv[i].calls)) = Denied(inv[i].calls)
              /\ inv[i].result[Len(inv[i].result)] =
                    [type |-> "internal", field |-> "", value |-> "nil",
                     detail |-> inv[i].err]

\* a timeout after two different deny() calls
C14_Witness ==
    \E i \in Invocations :
        /\ inv[i].pc = "returned"
        /\ inv[i].exit = "interrupt"
        /\ Len(inv[i].calls) = 2
        /\ inv[i].calls[1] # inv[i].calls[2]
        /\ Len(inv[i].result) = 3

\* C15: whatever the outcome of runSafely, its watcher goroutine ends after
\* runSafely has returned: it sends at most once on the interrupt channel of
\* capacity one, the send never blocks, and no goroutine is left waiting.
C15_WatcherEnds ==
    /\ [](\A i \in Invocations :
            /\ Len(inv[i].interrupt) + (IF inv[i].consumed THEN 1 ELSE 0) <= 1
            /\ (inv[i].watcher = "done" /\ inv[i].ctx # "none") =>
                  Len(inv[i].interrupt) + (IF inv[i].consumed THEN 1 ELSE 0) = 1
            /\ (inv[i].watcher = "waiting" /\ inv[i].ctx # "none") =>
                  inv[i].interrupt = <<>> /\ ~inv[i].consumed)
    /\ \A i \in Invocations :
          (inv[i].runs = 1 /\ inv[i].pc \in {"returned", "panicked"})
              ~> (inv[i].watcher = "done")

\* the script ran to its end before the deadline, and the watcher, woken by
\* the deferred cancel, has sent and ended
C15_Witness ==
    \E i \in Invocations :
        /\ inv[i].exit = "finish"
        /\ inv[i].ctx = "cancel"
        /\ inv[i].watcher = "done"
        /\ Len(inv[i].interrupt) = 1

\* the names Admit binds itself for this request
Builtins(cx) ==
    {"cache", "object", "log", "hasPrefix", "hasSuffix", "inDomain", "deny"}
        \cup (IF cx.Object.namespace # "" THEN {"namespace"} ELSE {})

\* C16: the built-in bindings win over the plugin's options: an option named
\* cache, object, namespace (for a namespace-scoped request), log,
\* hasPrefix, hasSuffix, inDomain or deny is hidden by the built-in value,
\* and every other option is bound to its value as it is.
C16_BuiltinsWin ==
    \A i \in Invocations :
        inv[i].runs = 1 =>
            /\ \A k \in Builtins(inv[i].cx) :
                  k \in DOMAIN inv[i].vm /\ inv[i].vm[k].by = "builtin"
            /\ \A k \in DOMAIN config.Options \ Builtins(inv[i].cx) :
                  /\ k \in DOMAIN inv[i].vm
                  /\ inv[i].vm[k].by = "option:" \o config.Options[k]

\* the options name `deny`: the script's deny() is still the host function
C16_Witness ==
    \E i \in Invocations :
        /\ inv[i].exit = "finish"
        /\ "deny" \in DOMAIN config.Options
        /\ inv[i].vm["deny"].by = "builtin"
        /\ inv[i].vm["limit"].by = "option:10"
        /\ Len(inv[i].result) = 1

\* the object of the request converts
Converts(cx) == cx.Object.encodable

\* C17, as claimed: Admit looks the namespace up and binds `namespace` iff the
\* object's namespace is not empty, at most once and before the script
\* starts; for a cluster-scoped object there is no lookup, `namespace` is
\* left unbound, and the script is executed. (Stated of the invocations
\* whose setup succeeds, where the script starts.)
C17_NamespaceIffScoped ==
    \A i \in Invocations :
        /\ inv[i].lookups <= 1
        /\ inv[i].runs = 1 =>
              /\ inv[i].lookups = 1 <=> inv[i].cx.Object.namespace # ""
              /\ "namespace" \in DOMAIN inv[i].vm <=> inv[i].cx.Object.namespace # ""

\* C17, amended: the lookup is made iff the object converts and its namespace
\* is not empty, at most once and before the script starts, and a lookup
\* that succeeds and whose result converts binds `namespace` to the
\* namespace's metadata; for a cluster-scoped object that converts there is no
\* lookup, Admit binds no metadata (`namespace` is unbound unless an option
\* of that name binds it), and the script is executed.
C17_LookupIffScoped ==
    \A i \in Invocations :
        LET r == inv[i]
            scoped == r.cx.Object.namespace # ""
        IN  /\ r.lookups <= 1
            /\ r.pc \notin {"idle", "ready"} =>
                  /\ r.lookups = 1 <=> (Converts(r.cx) /\ scoped)
                  /\ r.ip > 0 => r.runs = 1
                  /\ (Converts(r.cx) /\ ~scoped) =>
                        /\ r.runs = 1
                        /\ r.namespace = {}
                        /\ "namespace" \in DOMAIN r.vm =>
                              /\ "namespace" \in DOMAIN config.Options
                              /\ r.vm["namespace"].by
                                    = "option:" \o config.Options["namespace"]
                  /\ (Converts(r.cx) /\ scoped) =>
                        IF r.cx.Namespace.err = "nil" /\ r.cx.Namespace.ns.encodable
                        THEN /\ r.runs = 1
                             /\ r.vm["namespace"].by = "builtin"
                             /\ r.namespace = marshal(r.cx.Namespace.ns).data
                        ELSE /\ r.runs = 0
                             /\ r.exit = "setup"

\* a cluster-scoped object under options that name `namespace`: no lookup,
\* the script runs, and `namespace` is the option
C17_Witness ==
    \E i \in Invocations :
        /\ inv[i].pc = "running"
        /\ inv[i].cx.Object.namespace = ""
        /\ inv[i].lookups = 0
        /\ inv[i].ip > 0
        /\ "namespace" \in DOMAIN inv[i].vm
        /\ inv[i].vm["namespace"].by = "option:any"

\* C11: every call of Stop, wherever it falls among the steps of Admit and
\* the calls of FilterOn and Name, returns no error and leaves the
\* configuration, its filter and the invocations as they were: it only
\* counts, so n calls leave the authorizer where one call leaves it; and
\* FilterOn and Name answer from that configuration before and after
C11_StopIdempotent ==
    [][/\ api'.stops # api.stops =>
            /\ api' = [api EXCEPT !.stops = api.stops + 1, !.stopErr = "nil"]
            /\ config' = config
            /\ FilterOn(config') = FilterOn(config)
            /\ inv' = inv
       /\ api.stops > 0 =>
            /\ api'.stopErr = "nil"
            /\ config' = config
            /\ api'.filterOn # api.filterOn => api'.filterOn = FilterOn(config)
            /\ api'.name # api.name => api'.name = Name(config)]_vars

\* an authorizer built from a file and stopped twice, on which a request
\* finished with its denial and FilterOn and Name answer from the configuration
C11_Witness ==
    /\ api.stops = 2
    /\ api.built = "ok"
    /\ api.path # ""
    /\ inv[1].exit = "finish"
    /\ Len(inv[1].result) = 1
    /\ api.filterOn = FilterOn(config)
    /\ api.filterOn.Kind = "pods"
    /\ api.name = Name(config)

\* C18: an authorizer NewFromFile built from a path that is not empty has a
\* filter of kind All when the file names no kind, and of the kind of the
\* file otherwise; it ignores the namespaces of IgnoreNamespaces of the file
\* when there are any, and otherwise kube-system, kube-public and
\* kube-admission; the list is never empty, and FilterOn returns that filter
C18_FilterDefaults ==
    (api.built = "ok" /\ api.path # "") =>
        LET cfg == api.file.cfg IN
        /\ api.file.readable
        /\ FilterOn(config).Kind
              = (IF cfg.FilterOn.Kind = "" THEN FilterAll ELSE cfg.FilterOn.Kind)
        /\ FilterOn(config).IgnoreNamespaces
              = (IF cfg.IgnoreNamespaces # <<>>
                 THEN cfg.IgnoreNamespaces
                 ELSE <<"kube-system", "kube-public", "kube-admission">>)
        /\ Len(FilterOn(config).IgnoreNamespaces) > 0
        /\ api.filterOn # NoFilter => api.filterOn = FilterOn(config)

\* a file with neither kind nor IgnoreNamespaces, but with namespaces in its
\* filter: the authorizer filters on all kinds and ignores the default three
C18_Witness ==
    /\ api.built = "ok"
    /\ api.path # ""
    /\ api.file.cfg.FilterOn.Kind = ""
    /\ api.file.cfg.IgnoreNamespaces = <<>>
    /\ api.file.cfg.FilterOn.IgnoreNamespaces = <<"other">>
    /\ api.filterOn = [Kind |-> FilterAll, IgnoreNamespaces |-> DefaultIgnored]

\* the rules of the ingress of a check whose host is outside the hosted
\* domains
ExternalRules(check) ==
    {i \in 1..Len(check.Hosts) : DomainOf(check.Hosts[i]) \notin HostedDomains}

\* an ingress with an http challenge and the external ingress class
HttpExternal(check) ==
    /\ check.Provider = "http"
    /\ check.Class = "nginx-external"

\* errs holds, for the host of rule i, an invalid violation on its path
DeniesHost(errs, check, i) ==
    \E k \in 1..Len(errs) :
        /\ errs[k].type = "invalid"
        /\ errs[k].field = RuleHost(i)
        /\ errs[k].value = check.Hosts[i]

\* C12: an ingress with an http challenge and the external class, with a
\* host outside the hosted domains, whose resolver answers another name than
\* the external ingress hostname: Admit allows when the namespace says
\* enable-dns-check "false"; when it says "true", says nothing or says
\* anything else, Admit denies with an invalid violation on that host
C12_DnsCheckDefaultsOn ==
    (/\ kcm.ran
     /\ HttpExternal(kcm.check)
     /\ ExternalRules(kcm.check) # {}
     /\ kcm.resolve # ExternalIngressHostname) =>
        IF kcm.check.Namespace = "false"
        THEN kcm.errs = <<>>
        ELSE /\ kcm.errs # <<>>
             /\ \A i \in ExternalRules(kcm.check) :
                    DeniesHost(kcm.errs, kcm.check, i)

\* the resolver answers bad.hostname for site.nohere.com, in a namespace
\* whose annotation is neither true nor false: one violation, on the host
C12_Witness ==
    /\ kcm.ran
    /\ HttpExternal(kcm.check)
    /\ kcm.check.Hosts = <<"site.nohere.com">>
    /\ kcm.resolve = "bad.hostname"
    /\ kcm.check.Namespace = "bad_value"
    /\ Len(kcm.errs) = 1
    /\ kcm.errs[1].field = "spec.rules[0].host"

\* C13: an ingress with an http challenge and the external class, in a
\* namespace whose DNS check is on: Admit allows iff the resolver answers
\* exactly the external ingress hostname for every host outside the hosted
\* domains (or there is none); otherwise it denies with one invalid
\* violation for each such host, on spec.rules[i].host and with the host as
\* its bad value, and with nothing else
C13_ResolvesToIngress ==
    (/\ kcm.ran
     /\ HttpExternal(kcm.check)
     /\ kcm.check.Namespace # "false") =>
        IF kcm.resolve = ExternalIngressHostname \/ ExternalRules(kcm.check) = {}
        THEN kcm.errs = <<>>
        ELSE /\ Len(kcm.errs) = Cardinality(ExternalRules(kcm.check))
             /\ \A i \in ExternalRules(kcm.check) :
                    DeniesHost(kcm.errs, kcm.check, i)
             /\ \A k \in 1..Len(kcm.errs) :
                    /\ kcm.errs[k].type = "invalid"
                    /\ \E i \in ExternalRules(kcm.check) :
                          kcm.errs[k].field = RuleHost(i)

\* a hosted host before the host outside: the one violation is on the
\* second rule; and the same ingress is allowed once the resolver answers
\* the external ingress hostname
C13_Witness ==
    /\ kcm.ran
    /\ HttpExternal(kcm.check)
    /\ kcm.check.Namespace = Absent
    /\ kcm.check.Hosts = <<"site.example.com", "site.nohere.com">>
    /\ kcm.resolve = "bad.hostname"
    /\ kcm.check.Resolves = ""
    /\ kcm.errs = <<[type |-> "invalid", field |-> "spec.rules[1].host",
                     value |-> "site.nohere.com",
                     detail |-> "the hostname: site.nohere.com is not pointed to the external ingress dns name ingress.acp.example.com"]>>

====
